---- MODULE Spec2Model ----
(***************************************************************************)
(* State-estimation notebooks of mooc-exercises: the particle filter loop  *)
(* (Particle class and the per-timestep predict / update / resample /      *)
(* estimate cell) and the Kalman filter (predict, update and their driver  *)
(* loop).                                                                  *)
(*                                                                         *)
(* Numbers.  Particle coordinates are integers counted in units of the     *)
(* control step 10/num_data, so u_t is <<1, 1>> and ground_truth_x[i] is   *)
(* i.  A weight is kept exactly as the pair [num, den2] standing for       *)
(* num / sqrt(den2): 1/norm(d) is [num |-> 1, den2 |-> d.d]; den2 = 0 with *)
(* num > 0 is the float +inf that numpy's 1./0. yields, and 0/0 is NaN.    *)
(* Sequences are 1-based: slot j of the notebook is slot j+1 here.         *)
(***************************************************************************)
EXTENDS Integers, Sequences, FiniteSets, TLC

\* ------------------------------------------------------------ bounds

\* Largest particle count M (num_particles) tried.
MaxM == 2
\* Timesteps of the particle filter loop (num_data, capped).
MaxSteps == 2

\* ------------------------------------------------- particle filter state

VARIABLES
    num_particles,  \* M
    alpha,          \* the kept fraction, as the rational [num, den]
    particles,      \* the list: slot -> object id (a Python reference)
    heap,           \* object id -> [state, weight] (the Particle objects alive)
    nextId,         \* next fresh object id
    i,              \* timestep index of the for loop
    pc,             \* phase the loop is about to run
    z_t,            \* measurement of this timestep
    normalized_weights, \* the probabilities handed to np.random.choice
    indexes,        \* indices drawn by np.random.choice in this timestep
    estimated,      \* [sum, n]: estimated_x, estimated_y = sum / n
    pf_err,         \* exception that ended the loop, or "none"
    \* history of the current timestep (reset when the next iteration starts)
    pre,            \* slot -> state at the start of the predict loop
    noise,          \* slot -> motion noise drawn by that slot's predict call
    oldParticles,   \* the list as it was when resampling started
    oldHeap         \* the objects as they were when resampling started

pfvars == <<num_particles, alpha, particles, heap, nextId, i, pc, z_t,
            normalized_weights, indexes, estimated, pf_err, pre, noise,
            oldParticles, oldHeap>>

\* ------------------------------------------------------- sampled values

\* Values of alpha tried (the notebook sets 0.9).
Alphas == { [num |-> 0, den |-> 1], [num |-> 1, den |-> 2],
            [num |-> 9, den |-> 10], [num |-> 1, den |-> 1] }

\* Draws of (np.random.uniform(0,10), np.random.uniform(0,10)).
PriorVals == { <<0, 0>>, <<3, 1>> }

\* Draws of np.random.normal(0, 0.01, size=2).
MotionNoiseVals == { <<0, 0>>, <<1, -1>> }

\* Draws of (measurement_noise_x, measurement_noise_y).
MeasNoiseVals == { <<0, 0>>, <<2, 1>> }

\* u_t = np.array([10./num_data, 10./num_data]), in units of 10/num_data.
u_t == <<1, 1>>

\* ------------------------------------------------------------ vectors

VAdd(a, b) == [k \in 1..Len(a) |-> a[k] + b[k]]

VSub(a, b) == [k \in 1..Len(a) |-> a[k] - b[k]]

\* np.linalg.norm(d) squared, for a 2-vector.
NormSq(d) == d[1] * d[1] + d[2] * d[2]

\* ------------------------------------------------------------ Particle

\* Particle.__init__(x, y, w): w is 1 or 0. in the notebook.
NewParticle(xy, w) == [state |-> xy, weight |-> [num |-> w, den2 |-> 1]]

\* Particle.predict applied to the object p with the noise draw n.
ParticlePredict(p, n) == [p EXCEPT !.state = VAdd(VAdd(p.state, u_t), n)]

\* Particle.update applied to the object p: weight = 1. / norm(state - z).
ParticleUpdate(p, z) ==
    [p EXCEPT !.weight = [num |-> 1, den2 |-> NormSq(VSub(p.state, z))]]

IsInf(w) == w.num # 0 /\ w.den2 = 0

IsNaN(w) == w.num = 0 /\ w.den2 = 0

IsFinite(w) == w.den2 # 0

\* ------------------------------------------------------------ the loops

\* for p in particles: p.predict(u_t), from slot j on; ns[j] is the noise
\* drawn by the call made for slot j.  The call mutates the object the slot
\* refers to.
RECURSIVE PredictLoop(_, _, _, _)
PredictLoop(h, ps, ns, j) ==
    IF j > Len(ps) THEN h
    ELSE PredictLoop([h EXCEPT ![ps[j]] = ParticlePredict(h[ps[j]], ns[j])],
                     ps, ns, j + 1)

\* for p in particles: p.update(z_t), from slot j on.
RECURSIVE UpdateLoop(_, _, _, _)
UpdateLoop(h, ps, z, j) ==
    IF j > Len(ps) THEN h
    ELSE UpdateLoop([h EXCEPT ![ps[j]] = ParticleUpdate(h[ps[j]], z)],
                    ps, z, j + 1)

\* round(num_particles * alpha) in place of int(...): rounds half up.
NumKeptRounded(M, a) == (2 * M * a.num + a.den) \div (2 * a.den)

\* int(num_particles * alpha)
NumKept(M, a) == (M * a.num) \div a.den

\* for j in range(K): p = particles[indexes[j]]; particles[j] = p
\* run in place on the list ps, from slot j on.
RECURSIVE KeepLoop(_, _, _, _)
KeepLoop(ps, idx, j, K) ==
    IF j > K THEN ps
    ELSE KeepLoop([ps EXCEPT ![j] = ps[idx[j]]], idx, j + 1, K)

\* weights = [p.weight for p in particles]
Weights(h, ps) == [j \in 1..Len(ps) |-> h[ps[j]].weight]

\* float(np.sum(weights)): "inf" when a weight is +inf, "zero" when every
\* weight is 0, "nan" when a weight is NaN, else "pos".
SumKind(ws) ==
    IF \E j \in 1..Len(ws) : IsNaN(ws[j]) THEN "nan"
    ELSE IF \E j \in 1..Len(ws) : IsInf(ws[j]) THEN "inf"
    ELSE IF \A j \in 1..Len(ws) : ws[j].num = 0 THEN "zero"
    ELSE "pos"

\* normalized_weights = np.array(weights) / float(np.sum(weights)), entry by
\* entry: x/inf is 0 for finite x and NaN for inf, 0/0 is NaN.
Normalized(ws) ==
    LET s == SumKind(ws) IN
    [j \in 1..Len(ws) |->
        IF s = "nan" THEN "nan"
        ELSE IF s = "inf" THEN (IF IsInf(ws[j]) THEN "nan" ELSE "zero")
        ELSE IF s = "zero" THEN "nan"
        ELSE IF ws[j].num = 0 THEN "zero" ELSE "pos"]

\* np.random.choice(M, size=M, p=p) raises ValueError ("probabilities contain
\* NaN") when p holds a NaN.
ChoiceRaises(p) == \E j \in 1..Len(p) : p[j] = "nan"

\* The index vectors np.random.choice can return: M draws, each an index of
\* positive probability.
ChoiceDraws(p) == [1..Len(p) -> {j \in 1..Len(p) : p[j] = "pos"}]

\* for j in range(M - K): particles[K + j] = Particle(x, y, 0.), the new
\* objects taking the ids from `first` on; inj[j] is the j-th prior draw.
InjectList(ps, K, first) ==
    [j \in 1..Len(ps) |-> IF j <= K THEN ps[j] ELSE first + (j - K - 1)]

InjectHeap(h, ps, K, first, inj) ==
    [id \in {ps[j] : j \in 1..K} \cup {first + (j - 1) : j \in 1..(Len(ps) - K)} |->
        IF id >= first THEN NewParticle(inj[id - first + 1], 0) ELSE h[id]]

\* ------------------------------------------------------------ actions

None == <<>>

PFInit ==
    /\ num_particles \in 1..MaxM
    /\ alpha \in Alphas
    /\ particles = [j \in 1..num_particles |-> j]
    /\ \E xy \in [1..num_particles -> PriorVals] :
           heap = [id \in 1..num_particles |-> NewParticle(xy[id], 1)]
    /\ nextId = num_particles + 1
    /\ i = 0
    /\ pc = "predict"
    /\ z_t = None
    /\ normalized_weights = None
    /\ indexes = None
    /\ estimated = None
    /\ pf_err = "none"
    /\ pre = None
    /\ noise = None
    /\ oldParticles = None
    /\ oldHeap = None

\* for p in particles: p.predict(u_t)
PredictAll ==
    /\ pc = "predict"
    /\ \E ns \in [1..num_particles -> MotionNoiseVals] :
           /\ heap' = PredictLoop(heap, particles, ns, 1)
           /\ noise' = ns
    /\ pre' = [j \in 1..num_particles |-> heap[particles[j]].state]
    /\ pc' = "measure"
    /\ UNCHANGED <<num_particles, alpha, particles, nextId, i, z_t,
                   normalized_weights, indexes, estimated, pf_err,
                   oldParticles, oldHeap>>

\* z_t = ground_truth_x[i+1] + noise, in both coordinates
Measure ==
    /\ pc = "measure"
    /\ \E mn \in MeasNoiseVals : z_t' = <<i + 1 + mn[1], i + 1 + mn[2]>>
    /\ pc' = "update"
    /\ UNCHANGED <<num_particles, alpha, particles, heap, nextId, i,
                   normalized_weights, indexes, estimated, pf_err, pre, noise,
                   oldParticles, oldHeap>>

\* for p in particles: p.update(z_t)
\* for p in particles[:int(num_particles * alpha)]: p.update(z_t): only the
\* slots that resampling keeps are weighted
UpdateAllKeptOnly ==
    /\ pc = "update"
    /\ heap' = UpdateLoop(heap,
                          SubSeq(particles, 1, NumKept(num_particles, alpha)),
                          z_t, 1)
    /\ pc' = "resample"
    /\ UNCHANGED <<num_particles, alpha, particles, nextId, i, z_t,
                   normalized_weights, indexes, estimated, pf_err, pre, noise,
                   oldParticles, oldHeap>>

UpdateAll ==
    /\ pc = "update"
    /\ heap' = UpdateLoop(heap, particles, z_t, 1)
    /\ pc' = "resample"
    /\ UNCHANGED <<num_particles, alpha, particles, nextId, i, z_t,
                   normalized_weights, indexes, estimated, pf_err, pre, noise,
                   oldParticles, oldHeap>>

\* the resampling block, when np.random.choice returns
Resample ==
    /\ pc = "resample"
    /\ LET p == Normalized(Weights(heap, particles))
           K == NumKept(num_particles, alpha)
       IN  /\ ~ChoiceRaises(p)
           /\ normalized_weights' = p
           /\ \E idx \in ChoiceDraws(p) :
              \E inj \in [1..(num_particles - K) -> PriorVals] :
                  LET kept == KeepLoop(particles, idx, 1, K) IN
                  /\ indexes' = idx
                  /\ particles' = InjectList(kept, K, nextId)
                  /\ heap' = InjectHeap(heap, kept, K, nextId, inj)
                  /\ nextId' = nextId + (num_particles - K)
    /\ oldParticles' = particles
    /\ oldHeap' = heap
    /\ pc' = "estimate"
    /\ UNCHANGED <<num_particles, alpha, i, z_t, estimated, pf_err, pre, noise>>

\* the resampling block, when np.random.choice raises: the exception leaves
\* the loop, nothing after it in the iteration runs
ResampleRaises ==
    /\ pc = "resample"
    /\ ChoiceRaises(Normalized(Weights(heap, particles)))
    /\ normalized_weights' = Normalized(Weights(heap, particles))
    /\ pf_err' = "ValueError"
    /\ pc' = "error"
    /\ UNCHANGED <<num_particles, alpha, particles, heap, nextId, i, z_t,
                   indexes, estimated, pre, noise, oldParticles, oldHeap>>

\* xs, ys over particles, every slot: injected particles included
KeptSumAll(h, ps, K) ==
    LET RECURSIVE S(_)
        S(j) == IF j = 0 THEN <<0, 0>> ELSE VAdd(S(j - 1), h[ps[j]].state)
    IN  S(Len(ps))

\* xs, ys over particles[:K]; estimated_x, estimated_y = np.mean(xs), np.mean(ys)
KeptSum(h, ps, K) ==
    LET RECURSIVE S(_)
        S(j) == IF j = 0 THEN <<0, 0>> ELSE VAdd(S(j - 1), h[ps[j]].state)
    IN  S(K)

Estimate ==
    /\ pc = "estimate"
    /\ LET K == NumKept(num_particles, alpha) IN
       estimated' = [sum |-> KeptSum(heap, particles, K), n |-> K]
    /\ i' = i + 1
    /\ pc' = IF i + 1 < MaxSteps THEN "predict" ELSE "done"
    /\ z_t' = None
    /\ normalized_weights' = None
    /\ indexes' = None
    /\ pre' = None
    /\ noise' = None
    /\ oldParticles' = None
    /\ oldHeap' = None
    /\ UNCHANGED <<num_particles, alpha, particles, heap, nextId, pf_err>>


\* ====================================================== Kalman filter

\* Iterations of the Kalman driver loop (num_data - 1, capped).
MaxKSteps == 2

\* Calls made by a caller that applies predict and update in any order.
MaxCalls == 3

VARIABLES
    kcfg,                \* the matrices A, B, Q, H, R and mu_0, Sigma_0
    mu_current,          \* belief mean held by the driver
    Sigma_current,       \* belief covariance held by the driver
    predicted_mu,        \* result of the last predict call
    predicted_Sigma,
    residual_mean,       \* locals of the last update call
    residual_covariance,
    kalman_gain,
    k_i,                 \* index of the driver loop
    kpc,                 \* what the driver runs next
    k_err,               \* exception that ended the driver loop, or "none"
    k_last,              \* the call made last: "none", "predict", "update"
    k_u,                 \* control vector handed to the last predict call
    k_z,                 \* measurement handed to the last update call
    k_calls,             \* the calls made so far, when made in any order
    run2                 \* a second run of the driver loop on other data

kvars == <<kcfg, mu_current, Sigma_current, predicted_mu, predicted_Sigma,
           residual_mean, residual_covariance, kalman_gain, k_i, kpc, k_err,
           k_last, k_u, k_z>>

xvars == <<k_calls, run2>>

vars == <<pfvars, kvars, xvars>>

\* ------------------------------------------------------------ rationals
\* A real number is the reduced fraction [n, d] with d > 0.

Abs(x) == IF x < 0 THEN -x ELSE x

RECURSIVE GCD(_, _)
GCD(a, b) == IF b = 0 THEN a ELSE GCD(b, a % b)

Rat(n, d) ==
    LET g == GCD(Abs(n), Abs(d))
        sg == IF d < 0 THEN -1 ELSE 1
    IN  [n |-> sg * (n \div g), d |-> sg * (d \div g)]

\* Sums and products cancel common factors before multiplying, so that the
\* intermediate integers stay small.
RAdd(x, y) ==
    LET g == GCD(x.d, y.d) IN
    Rat(x.n * (y.d \div g) + y.n * (x.d \div g), (x.d \div g) * y.d)

RNeg(x) == [n |-> -x.n, d |-> x.d]

RSub(x, y) == RAdd(x, RNeg(y))

RMul(x, y) ==
    LET g1 == GCD(Abs(x.n), y.d)
        g2 == GCD(Abs(y.n), x.d)
    IN  Rat((x.n \div g1) * (y.n \div g2), (x.d \div g2) * (y.d \div g1))

\* x / y for y # 0
RDiv(x, y) == RMul(x, Rat(y.d, y.n))

RLess(x, y) == RSub(x, y).n < 0

R0 == Rat(0, 1)

R1 == Rat(1, 1)

\* ------------------------------------------------------------ numpy arrays
\* A 1-D array is a sequence of rationals, a 2-D array a sequence of rows.

Rows(X) == Len(X)

Cols(X) == Len(X[1])

Column(X, c) == [r \in 1..Rows(X) |-> X[r][c]]

Dot(x, y) ==
    LET RECURSIVE S(_)
        S(k) == IF k = 0 THEN R0 ELSE RAdd(S(k - 1), RMul(x[k], y[k]))
    IN  S(Len(x))

\* X @ Y for 2-D X, Y of fitting shapes
MatMul(X, Y) == [r \in 1..Rows(X) |-> [c \in 1..Cols(Y) |-> Dot(X[r], Column(Y, c))]]

\* X @ v for 2-D X and 1-D v with Len(v) = Cols(X)
MatVec(X, v) == [r \in 1..Rows(X) |-> Dot(X[r], v)]

\* X.T
Transpose(X) == [c \in 1..Cols(X) |-> Column(X, c)]

MatAdd(X, Y) == [r \in 1..Rows(X) |-> [c \in 1..Cols(X) |-> RAdd(X[r][c], Y[r][c])]]

MatSub(X, Y) == [r \in 1..Rows(X) |-> [c \in 1..Cols(X) |-> RSub(X[r][c], Y[r][c])]]

VecAdd(x, y) == [k \in 1..Len(x) |-> RAdd(x[k], y[k])]

\* X @ v raises ValueError (core dimension mismatch) unless Len(v) = Cols(X).
MatVecRaises(X, v) == Len(v) # Cols(X)

\* x - y for 1-D arrays under numpy broadcasting: equal lengths go entry by
\* entry, a length-1 operand is stretched, anything else raises ValueError.
BroadcastRaises(x, y) == Len(x) # Len(y) /\ Len(x) # 1 /\ Len(y) # 1

BroadcastSub(x, y) ==
    LET m == IF Len(x) >= Len(y) THEN Len(x) ELSE Len(y) IN
    [k \in 1..m |-> RSub(IF Len(x) = 1 THEN x[1] ELSE x[k],
                         IF Len(y) = 1 THEN y[1] ELSE y[k])]

Det(X) == RSub(RMul(X[1][1], X[2][2]), RMul(X[1][2], X[2][1]))

\* np.linalg.inv raises LinAlgError ("Singular matrix") on a singular matrix.
InvRaises(X) == Det(X) = R0

\* np.linalg.inv(X) for an invertible 2x2 X
Inv(X) ==
    LET dt == Det(X) IN
    << <<RDiv(X[2][2], dt), RDiv(RSub(R0, X[1][2]), dt)>>,
       <<RDiv(RSub(R0, X[2][1]), dt), RDiv(X[1][1], dt)>> >>

\* ------------------------------------------------------------ predict

\* predicted_mu = A @ mu_t + B @ u_t
PredictedMu(A, B, mu, u) == VecAdd(MatVec(A, mu), MatVec(B, u))

\* predicted_Sigma = A @ Sigma_t @ A.T + Q
PredictedSigma(A, Q, Sigma) == MatAdd(MatMul(MatMul(A, Sigma), Transpose(A)), Q)

\* predict(A, B, Q, mu_t, u_t, Sigma_t): the exception raised, or "none"
PredictRaises(A, B, Q, mu, u, Sigma) ==
    IF MatVecRaises(A, mu) \/ MatVecRaises(B, u) THEN "ValueError" ELSE "none"

\* ------------------------------------------------------------ update

\* residual_mean = z - H @ predicted_mu
ResidualMean(H, z, pmu) == BroadcastSub(z, MatVec(H, pmu))

\* residual_covariance = H @ predicted_Sigma @ H.T + R
ResidualCovariance(H, R, pSigma) ==
    MatAdd(MatMul(MatMul(H, pSigma), Transpose(H)), R)

\* kalman_gain = predicted_Sigma @ H @ inv(residual_covariance): H for H.T
KalmanGainNoTranspose(H, pSigma, S) == MatMul(MatMul(pSigma, H), Inv(S))

\* kalman_gain = predicted_Sigma @ H.T @ np.linalg.inv(residual_covariance)
KalmanGain(H, pSigma, S) == MatMul(MatMul(pSigma, Transpose(H)), Inv(S))

\* updated_mu = predicted_mu - kalman_gain @ residual_mean: the correction
\* applied with the wrong sign
UpdatedMuMinus(pmu, K, r) ==
    [k \in 1..Len(pmu) |-> RSub(pmu[k], MatVec(K, r)[k])]

\* updated_mu = predicted_mu + kalman_gain @ residual_mean
UpdatedMu(pmu, K, r) == VecAdd(pmu, MatVec(K, r))

\* updated_Sigma = predicted_Sigma + kalman_gain @ H @ predicted_Sigma: the
\* correction applied with the wrong sign
UpdatedSigmaPlus(H, pSigma, K) == MatAdd(pSigma, MatMul(MatMul(K, H), pSigma))

\* updated_Sigma = predicted_Sigma - kalman_gain @ predicted_Sigma: H left out
UpdatedSigmaDropsH(H, pSigma, K) == MatSub(pSigma, MatMul(K, pSigma))

\* updated_Sigma = predicted_Sigma - kalman_gain @ H @ predicted_Sigma
UpdatedSigma(H, pSigma, K) == MatSub(pSigma, MatMul(MatMul(K, H), pSigma))

\* update(H, R, z, predicted_mu, predicted_Sigma): the exception raised, in
\* the order the lines run, or "none"
UpdateRaises(H, R, z, pmu, pSigma) ==
    IF MatVecRaises(H, pmu) \/ BroadcastRaises(z, MatVec(H, pmu)) THEN "ValueError"
    ELSE IF InvRaises(ResidualCovariance(H, R, pSigma)) THEN "LinAlgError"
    ELSE IF MatVecRaises(KalmanGain(H, pSigma, ResidualCovariance(H, R, pSigma)),
                         ResidualMean(H, z, pmu)) THEN "ValueError"
    ELSE "none"

\* ------------------------------------------------------------ the driver

Diag(a, b) == << <<a, R0>>, <<R0, b>> >>

I2 == Diag(R1, R1)

Zero2 == Diag(R0, R0)

\* The configuration of the notebook's driver cell.
DriverCfg ==
    [ mu_0 |-> <<R0, R0>>,
      Sigma_0 |-> Diag(Rat(1, 10), Rat(1, 10)),
      A |-> I2,
      B |-> I2,
      Q |-> Diag(Rat(3, 10), Rat(3, 10)),
      H |-> I2,
      R |-> Diag(Rat(3, 4), Rat(3, 5)) ]

\* A configuration with coupled dynamics and a coupled measurement.
CoupledCfg ==
    [ mu_0 |-> <<R1, R0>>,
      Sigma_0 |-> I2,
      A |-> << <<R1, R1>>, <<R0, R1>> >>,
      B |-> << <<R1, R0>>, <<R1, R1>> >>,
      Q |-> I2,
      H |-> << <<R1, R0>>, <<R1, R1>> >>,
      R |-> I2 ]

\* A configuration whose residual covariance is singular: no process noise,
\* no initial uncertainty and a rank-1 measurement noise (all PSD).
SingularCfg ==
    [ mu_0 |-> <<R0, R0>>,
      Sigma_0 |-> Zero2,
      A |-> I2,
      B |-> I2,
      Q |-> Zero2,
      H |-> I2,
      R |-> << <<R1, R1>>, <<R1, R1>> >> ]

Configs == {DriverCfg, CoupledCfg, SingularCfg}

\* Control vectors handed to predict: the driver's u_t = (1, 1), another
\* 2-vector, and vectors of the wrong length.
ControlVals == { <<R1, R1>>, <<R0, Rat(2, 1)>>, <<R1>>, <<R1, R1, R1>> }

\* Measurement vectors handed to update: 2-vectors and vectors of the wrong
\* length.
MeasVals == { <<Rat(6, 5), Rat(9, 10)>>, <<Rat(2, 1), Rat(-1, 1)>>,
              <<Rat(5, 1)>>, <<R1, R1, R1>> }

KInit ==
    /\ kcfg \in Configs
    /\ mu_current = kcfg.mu_0
    /\ Sigma_current = kcfg.Sigma_0
    /\ predicted_mu = None
    /\ predicted_Sigma = None
    /\ residual_mean = None
    /\ residual_covariance = None
    /\ kalman_gain = None
    /\ k_i = 0
    /\ kpc = "predict"
    /\ k_err = "none"
    /\ k_last = "none"
    /\ k_u = None
    /\ k_z = None

\* predicted_mu, predicted_Sigma = predict(A, B, R, mu_current, u_t,
\* Sigma_current): the measurement noise handed over as the noise term
KPredictSwapped ==
    /\ kpc = "predict"
    /\ \E u \in ControlVals :
          /\ PredictRaises(kcfg.A, kcfg.B, kcfg.R, mu_current, u, Sigma_current) = "none"
          /\ predicted_mu' = PredictedMu(kcfg.A, kcfg.B, mu_current, u)
          /\ predicted_Sigma' = PredictedSigma(kcfg.A, kcfg.R, Sigma_current)
          /\ k_u' = u
    /\ k_last' = "predict"
    /\ kpc' = "update"
    /\ UNCHANGED <<kcfg, mu_current, Sigma_current, residual_mean,
                   residual_covariance, kalman_gain, k_i, k_err, k_z>>

\* predicted_mu, predicted_Sigma = predict(A, B, Q, mu_current, u_t, Sigma_current)
KPredict ==
    /\ kpc = "predict"
    /\ \E u \in ControlVals :
          /\ PredictRaises(kcfg.A, kcfg.B, kcfg.Q, mu_current, u, Sigma_current) = "none"
          /\ predicted_mu' = PredictedMu(kcfg.A, kcfg.B, mu_current, u)
          /\ predicted_Sigma' = PredictedSigma(kcfg.A, kcfg.Q, Sigma_current)
          /\ k_u' = u
    /\ k_last' = "predict"
    /\ kpc' = "update"
    /\ UNCHANGED <<kcfg, mu_current, Sigma_current, residual_mean,
                   residual_covariance, kalman_gain, k_i, k_err, k_z>>

\* the predict call raises: the exception leaves the driver loop
KPredictFails ==
    /\ kpc = "predict"
    /\ \E u \in ControlVals :
          /\ PredictRaises(kcfg.A, kcfg.B, kcfg.Q, mu_current, u, Sigma_current) # "none"
          /\ k_err' = PredictRaises(kcfg.A, kcfg.B, kcfg.Q, mu_current, u, Sigma_current)
          /\ k_u' = u
    /\ k_last' = "predict"
    /\ kpc' = "error"
    /\ UNCHANGED <<kcfg, mu_current, Sigma_current, predicted_mu, predicted_Sigma,
                   residual_mean, residual_covariance, kalman_gain, k_i, k_z>>

\* update with the residual covariance taken from the residual itself,
\* residual_mean residual_mean^T + R, instead of H @ predicted_Sigma @ H.T + R
KUpdateResidualOuter ==
    /\ kpc = "update"
    /\ \E z \in MeasVals :
          LET r == ResidualMean(kcfg.H, z, predicted_mu)
              S == MatAdd([a \in 1..Len(r) |-> [b \in 1..Len(r) |-> RMul(r[a], r[b])]],
                          kcfg.R)
              K == KalmanGain(kcfg.H, predicted_Sigma, S)
          IN  /\ UpdateRaises(kcfg.H, kcfg.R, z, predicted_mu, predicted_Sigma) = "none"
              /\ ~InvRaises(S)
              /\ residual_mean' = r
              /\ residual_covariance' = S
              /\ kalman_gain' = K
              /\ mu_current' = UpdatedMu(predicted_mu, K, r)
              /\ Sigma_current' = UpdatedSigma(kcfg.H, predicted_Sigma, K)
              /\ k_z' = z
    /\ k_last' = "update"
    /\ k_i' = k_i + 1
    /\ kpc' = IF k_i + 1 < MaxKSteps THEN "predict" ELSE "done"
    /\ UNCHANGED <<kcfg, predicted_mu, predicted_Sigma, k_err, k_u>>

\* mu_current, Sigma_current = update(H, R, z, predicted_mu, predicted_Sigma)
KUpdate ==
    /\ kpc = "update"
    /\ \E z \in MeasVals :
          LET S == ResidualCovariance(kcfg.H, kcfg.R, predicted_Sigma)
              r == ResidualMean(kcfg.H, z, predicted_mu)
              K == KalmanGain(kcfg.H, predicted_Sigma, S)
          IN  /\ UpdateRaises(kcfg.H, kcfg.R, z, predicted_mu, predicted_Sigma) = "none"
              /\ residual_mean' = r
              /\ residual_covariance' = S
              /\ kalman_gain' = K
              /\ mu_current' = UpdatedMu(predicted_mu, K, r)
              /\ Sigma_current' = UpdatedSigma(kcfg.H, predicted_Sigma, K)
              /\ k_z' = z
    /\ k_last' = "update"
    /\ k_i' = k_i + 1
    /\ kpc' = IF k_i + 1 < MaxKSteps THEN "predict" ELSE "done"
    /\ UNCHANGED <<kcfg, predicted_mu, predicted_Sigma, k_err, k_u>>

\* the update call raises: the exception leaves the driver loop, the locals
\* assigned before the raising line keep their values
KUpdateFails ==
    /\ kpc = "update"
    /\ \E z \in MeasVals :
          LET e == UpdateRaises(kcfg.H, kcfg.R, z, predicted_mu, predicted_Sigma)
              early == MatVecRaises(kcfg.H, predicted_mu)
                         \/ BroadcastRaises(z, MatVec(kcfg.H, predicted_mu))
          IN  /\ e # "none"
              /\ k_err' = e
              /\ residual_mean' =
                    IF early THEN residual_mean
                    ELSE ResidualMean(kcfg.H, z, predicted_mu)
              /\ residual_covariance' =
                    IF early THEN residual_covariance
                    ELSE ResidualCovariance(kcfg.H, kcfg.R, predicted_Sigma)
              /\ k_z' = z
    /\ k_last' = "update"
    /\ kpc' = "error"
    /\ UNCHANGED <<kcfg, mu_current, Sigma_current, predicted_mu, predicted_Sigma,
                   kalman_gain, k_i, k_u>>

\* ------------------------------------------------- calls in any order
\* predict and update are functions of their arguments: a caller may apply
\* either one to the belief it holds, in any order.

CallInit ==
    /\ kcfg \in Configs
    /\ mu_current = kcfg.mu_0
    /\ Sigma_current = kcfg.Sigma_0
    /\ predicted_mu = None
    /\ predicted_Sigma = None
    /\ residual_mean = None
    /\ residual_covariance = None
    /\ kalman_gain = None
    /\ k_i = 0
    /\ kpc = "call"
    /\ k_err = "none"
    /\ k_last = "none"
    /\ k_u = None
    /\ k_z = None
    /\ k_calls = <<>>
    /\ run2 = None

\* mu, Sigma = predict(A, B, Q, mu, u_t, Sigma)
CallPredict ==
    /\ kpc = "call"
    /\ k_i < MaxCalls
    /\ \E u \in ControlVals :
          /\ PredictRaises(kcfg.A, kcfg.B, kcfg.Q, mu_current, u, Sigma_current) = "none"
          /\ mu_current' = PredictedMu(kcfg.A, kcfg.B, mu_current, u)
          /\ Sigma_current' = PredictedSigma(kcfg.A, kcfg.Q, Sigma_current)
          /\ k_u' = u
    /\ k_last' = "predict"
    /\ k_calls' = Append(k_calls, "predict")
    /\ k_i' = k_i + 1
    /\ UNCHANGED <<kcfg, predicted_mu, predicted_Sigma, residual_mean,
                   residual_covariance, kalman_gain, kpc, k_err, k_z, run2>>

\* the predict call raises
CallPredictFails ==
    /\ kpc = "call"
    /\ k_i < MaxCalls
    /\ \E u \in ControlVals :
          /\ PredictRaises(kcfg.A, kcfg.B, kcfg.Q, mu_current, u, Sigma_current) # "none"
          /\ k_err' = PredictRaises(kcfg.A, kcfg.B, kcfg.Q, mu_current, u, Sigma_current)
          /\ k_u' = u
    /\ k_last' = "predict"
    /\ k_calls' = Append(k_calls, "predict")
    /\ kpc' = "error"
    /\ UNCHANGED <<kcfg, mu_current, Sigma_current, predicted_mu, predicted_Sigma,
                   residual_mean, residual_covariance, kalman_gain, k_i, k_z, run2>>

\* mu, Sigma = update(H, R, z, mu, Sigma)
CallUpdate ==
    /\ kpc = "call"
    /\ k_i < MaxCalls
    /\ \E z \in MeasVals :
          LET S == ResidualCovariance(kcfg.H, kcfg.R, Sigma_current)
              r == ResidualMean(kcfg.H, z, mu_current)
              K == KalmanGain(kcfg.H, Sigma_current, S)
          IN  /\ UpdateRaises(kcfg.H, kcfg.R, z, mu_current, Sigma_current) = "none"
              /\ residual_mean' = r
              /\ residual_covariance' = S
              /\ kalman_gain' = K
              /\ mu_current' = UpdatedMu(mu_current, K, r)
              /\ Sigma_current' = UpdatedSigma(kcfg.H, Sigma_current, K)
              /\ k_z' = z
    /\ k_last' = "update"
    /\ k_calls' = Append(k_calls, "update")
    /\ k_i' = k_i + 1
    /\ UNCHANGED <<kcfg, predicted_mu, predicted_Sigma, kpc, k_err, k_u, run2>>

\* the update call raises
CallUpdateFails ==
    /\ kpc = "call"
    /\ k_i < MaxCalls
    /\ \E z \in MeasVals :
          LET e == UpdateRaises(kcfg.H, kcfg.R, z, mu_current, Sigma_current)
              early == MatVecRaises(kcfg.H, mu_current)
                         \/ BroadcastRaises(z, MatVec(kcfg.H, mu_current))
          IN  /\ e # "none"
              /\ k_err' = e
              /\ residual_mean' =
                    IF early THEN residual_mean
                    ELSE ResidualMean(kcfg.H, z, mu_current)
              /\ residual_covariance' =
                    IF early THEN residual_covariance
                    ELSE ResidualCovariance(kcfg.H, kcfg.R, Sigma_current)
              /\ k_z' = z
    /\ k_last' = "update"
    /\ k_calls' = Append(k_calls, "update")
    /\ kpc' = "error"
    /\ UNCHANGED <<kcfg, mu_current, Sigma_current, predicted_mu, predicted_Sigma,
                   kalman_gain, k_i, k_u, run2>>

\* ------------------------------------------------- a second run
\* The driver loop run a second time with the same matrices and initial
\* covariance on another initial mean, other controls and other measurements.

\* initial means of the second run
OtherMeans == { <<Rat(3, 1), Rat(-2, 1)>> }

\* controls and measurements of the second run
OtherControls == { <<Rat(-1, 1), Rat(3, 1)>> }

OtherMeas == { <<Rat(2, 1), Rat(-1, 1)>>, <<R0, Rat(4, 1)>> }

Run2Init ==
    /\ k_calls = None
    /\ \E m \in OtherMeans :
          run2 = [mu |-> m, Sigma |-> kcfg.Sigma_0,
                  predicted_mu |-> None, predicted_Sigma |-> None,
                  err |-> "none"]

\* predicted_mu, predicted_Sigma = predict(A, B, Q, mu_current, u_t, Sigma_current)
Run2Predict(r, u) ==
    LET e == PredictRaises(kcfg.A, kcfg.B, kcfg.Q, r.mu, u, r.Sigma) IN
    IF r.err # "none" THEN r
    ELSE IF e # "none" THEN [r EXCEPT !.err = e]
    ELSE [r EXCEPT !.predicted_mu = PredictedMu(kcfg.A, kcfg.B, r.mu, u),
                   !.predicted_Sigma = PredictedSigma(kcfg.A, kcfg.Q, r.Sigma)]

\* mu_current, Sigma_current = update(H, R, z, predicted_mu, predicted_Sigma)
Run2Update(r, z) ==
    LET e == UpdateRaises(kcfg.H, kcfg.R, z, r.predicted_mu, r.predicted_Sigma)
        S == ResidualCovariance(kcfg.H, kcfg.R, r.predicted_Sigma)
        K == KalmanGain(kcfg.H, r.predicted_Sigma, S)
    IN
    IF r.err # "none" THEN r
    ELSE IF e # "none" THEN [r EXCEPT !.err = e]
    ELSE [r EXCEPT !.mu = UpdatedMu(r.predicted_mu, K,
                                    ResidualMean(kcfg.H, z, r.predicted_mu)),
                   !.Sigma = UpdatedSigma(kcfg.H, r.predicted_Sigma, K)]

\* the second run's predict call of this iteration
Run2PredictStep ==
    /\ \E u \in OtherControls : run2' = Run2Predict(run2, u)
    /\ UNCHANGED k_calls

\* the second run's update call of this iteration
Run2UpdateStep ==
    /\ \E z \in OtherMeas : run2' = Run2Update(run2, z)
    /\ UNCHANGED k_calls

\* ------------------------------------------------------------ specifications

\* No caller applies predict and update out of the driver loop, and the
\* driver loop runs once.
XIdle == k_calls = None /\ run2 = None

\* The Kalman driver does not run.
KIdle ==
    /\ kcfg = None /\ mu_current = None /\ Sigma_current = None
    /\ predicted_mu = None /\ predicted_Sigma = None
    /\ residual_mean = None /\ residual_covariance = None /\ kalman_gain = None
    /\ k_i = 0 /\ kpc = "idle" /\ k_err = "none" /\ k_last = "none"
    /\ k_u = None /\ k_z = None

\* The particle filter does not run.
PFIdle ==
    /\ num_particles = 0 /\ alpha = None /\ particles = None /\ heap = None
    /\ nextId = 1 /\ i = 0 /\ pc = "idle" /\ z_t = None
    /\ normalized_weights = None /\ indexes = None /\ estimated = None
    /\ pf_err = "none" /\ pre = None /\ noise = None
    /\ oldParticles = None /\ oldHeap = None

\* The particle filter notebook.
Init == PFInit /\ KIdle /\ XIdle

Next ==
    \/ PredictAll /\ UNCHANGED <<kvars, xvars>>
    \/ Measure /\ UNCHANGED <<kvars, xvars>>
    \/ UpdateAll /\ UNCHANGED <<kvars, xvars>>
    \/ Resample /\ UNCHANGED <<kvars, xvars>>
    \/ ResampleRaises /\ UNCHANGED <<kvars, xvars>>
    \/ Estimate /\ UNCHANGED <<kvars, xvars>>

Spec == Init /\ [][Next]_vars

\* The Kalman filter notebook.
KFInit == KInit /\ PFIdle /\ XIdle

KFNext ==
    \/ KPredict /\ UNCHANGED <<pfvars, xvars>>
    \/ KPredictFails /\ UNCHANGED <<pfvars, xvars>>
    \/ KUpdate /\ UNCHANGED <<pfvars, xvars>>
    \/ KUpdateFails /\ UNCHANGED <<pfvars, xvars>>

KFSpec == KFInit /\ [][KFNext]_vars

\* predict and update applied in any order.
CallsInit == CallInit /\ PFIdle

CallsNext ==
    \/ CallPredict /\ UNCHANGED pfvars
    \/ CallPredictFails /\ UNCHANGED pfvars
    \/ CallUpdate /\ UNCHANGED pfvars
    \/ CallUpdateFails /\ UNCHANGED pfvars

CallsSpec == CallsInit /\ [][CallsNext]_vars

\* The Kalman filter notebook run twice, side by side.
PairInit == KInit /\ Run2Init /\ PFIdle

PairNext ==
    \/ KPredict /\ Run2PredictStep /\ UNCHANGED pfvars
    \/ KPredictFails /\ Run2PredictStep /\ UNCHANGED pfvars
    \/ KUpdate /\ Run2UpdateStep /\ UNCHANGED pfvars
    \/ KUpdateFails /\ Run2UpdateStep /\ UNCHANGED pfvars

PairSpec == PairInit /\ [][PairNext]_vars

\* ------------------------------------------------- particle filter claims

\* floor(alpha * M), stated by its defining inequalities.
IsFloorOfAlphaM(K) ==
    /\ K \in 0..num_particles
    /\ K * alpha.den <= num_particles * alpha.num
    /\ num_particles * alpha.num < (K + 1) * alpha.den

\* C1: after every resampling step the list holds exactly M particles; the
\* first K = floor(alpha*M) slots hold objects of the previous (weighted)
\* generation, unchanged, and the other M-K slots hold objects created by this
\* resampling, drawn from the prior with weight 0; in every timestep.
C1_CountAndSplit ==
    /\ Len(particles) = num_particles
    /\ pc = "estimate" =>
         \E K \in 0..num_particles :
            /\ IsFloorOfAlphaM(K)
            /\ \A j \in 1..K :
                  /\ particles[j] \in {oldParticles[k] : k \in 1..num_particles}
                  /\ heap[particles[j]] = oldHeap[particles[j]]
            /\ \A j \in (K + 1)..num_particles :
                  /\ particles[j] \notin DOMAIN oldHeap
                  /\ heap[particles[j]].state \in PriorVals
                  /\ heap[particles[j]].weight = [num |-> 0, den2 |-> 1]
            /\ Cardinality({particles[j] : j \in (K + 1)..num_particles})
                  = num_particles - K

\* C1 witness: a resampling of the second timestep that both keeps and injects.
C1_Witness ==
    /\ pc = "estimate"
    /\ i = 1
    /\ num_particles = 2
    /\ alpha = [num |-> 9, den |-> 10]
    /\ particles[1] \in DOMAIN oldHeap
    /\ particles[2] \notin DOMAIN oldHeap

\* C2: after resampling no two slots of the new generation refer to the same
\* particle object (kept particles are copies), also when an index was drawn
\* more than once.
C2_NoSharedObject ==
    pc = "estimate" =>
        \A j, k \in 1..num_particles : j # k => particles[j] # particles[k]

\* C3: after resampling, every kept slot j holds the state the old generation
\* had at the drawn index indexes[j] before resampling started.
C3_KeptIsOldAtDrawnIndex ==
    pc = "estimate" =>
        \A j \in 1..NumKept(num_particles, alpha) :
            heap[particles[j]].state = oldHeap[oldParticles[indexes[j]]].state

\* C4: at the end of the predict phase of every timestep, the state seen in
\* each slot is its state at the start of the phase plus u_t plus the one
\* noise draw made for that slot.
C4_OneMotionStepPerSlot ==
    pc = "measure" =>
        \A j \in 1..num_particles :
            heap[particles[j]].state = VAdd(VAdd(pre[j], u_t), noise[j])

\* The sum of the weights read by the resampling step is zero or non-finite.
BadSum(h, ps) == SumKind(Weights(h, ps)) # "pos"

\* C5: when the sum of the weights after update is zero or non-finite, the
\* resampling step fails with DegenerateWeights without dividing by the sum,
\* and the particle set is not replaced.
C5_DegenerateWeightsRaised ==
    /\ (pc = "error" /\ BadSum(heap, particles)) =>
           /\ pf_err = "DegenerateWeights"
           /\ normalized_weights = None
    /\ pc = "estimate" => ~BadSum(oldHeap, oldParticles)

\* C6: every weight that reaches the normalization step is a finite
\* non-negative number, also for a particle whose state equals z_t.
C6_WeightsFinite ==
    pc = "resample" =>
        \A j \in 1..num_particles :
            /\ IsFinite(heap[particles[j]].weight)
            /\ heap[particles[j]].weight.num >= 0

\* ------------------------------------------------- Kalman filter claims

\* The residual covariance H Sigma H^T + Sigma_meas of the last update call
\* is not invertible (the call got as far as computing it).
SingularResidual ==
    /\ k_last = "update"
    /\ Len(k_z) = Rows(kcfg.H)
    /\ Det(ResidualCovariance(kcfg.H, kcfg.R, predicted_Sigma)) = R0

\* C7: an update whose residual covariance is not invertible signals
\* SingularCovariance to the caller and produces no updated mean/covariance.
C7_SingularCovarianceSignalled ==
    SingularResidual => (kpc = "error" /\ k_err = "SingularCovariance")

\* The vector handed to the last call disagrees with the model's dimensions.
MismatchedPredict == k_last = "predict" /\ Len(k_u) # Cols(kcfg.B)

MismatchedUpdate == k_last = "update" /\ Len(k_z) # Rows(kcfg.H)

\* C8: a predict or update call whose control or measurement vector has the
\* wrong dimension is aborted with an error and returns no new belief: a
\* mismatched operand is never silently accepted.
C8_MismatchNeverAccepted ==
    (MismatchedPredict \/ MismatchedUpdate) => (kpc = "error" /\ k_err # "none")

\* The last call was an update that returned, on a measurement of the
\* model's dimension.
UpdateReturned ==
    /\ k_last = "update"
    /\ k_err = "none"
    /\ Len(k_z) = Rows(kcfg.H)

\* The sum of f over the indices 1, 2.
Sum2(f(_)) == RAdd(f(1), f(2))

\* C9: an update that returns has computed residual = z - H*mean,
\* S = H*cov*H^T + Sigma_meas, the gain solving gain*S = cov*H^T, and returned
\* mean' = mean + gain*residual and cov' = cov - gain*H*cov, with mean and cov
\* the predicted (pre-update) belief; written entry by entry.
C9_UpdateMatchesReference ==
    UpdateReturned =>
        LET H == kcfg.H
            R == kcfg.R
            m == predicted_mu
            P == predicted_Sigma
            r == residual_mean
            S == residual_covariance
            K == kalman_gain
            HP(a, q) == LET t(p) == RMul(H[a][p], P[p][q]) IN Sum2(t)
            HPHt(a, b) == LET t(q) == RMul(HP(a, q), H[b][q]) IN Sum2(t)
            KH(a, p) == LET t(c) == RMul(K[a][c], H[c][p]) IN Sum2(t)
        IN  /\ \A a \in 1..2 :
                  LET t(p) == RMul(H[a][p], m[p]) IN
                  r[a] = RSub(k_z[a], Sum2(t))
            /\ \A a, b \in 1..2 : S[a][b] = RAdd(HPHt(a, b), R[a][b])
            /\ \A a, b \in 1..2 :
                  LET ks(c) == RMul(K[a][c], S[c][b])
                      ph(p) == RMul(P[a][p], H[b][p])
                  IN  Sum2(ks) = Sum2(ph)
            /\ \A a \in 1..2 :
                  LET t(c) == RMul(K[a][c], r[c]) IN
                  mu_current[a] = RAdd(m[a], Sum2(t))
            /\ \A a, b \in 1..2 :
                  LET t(p) == RMul(KH(a, p), P[p][b]) IN
                  Sigma_current[a][b] = RSub(P[a][b], Sum2(t))

\* C9 witness: the second update of a run with coupled H, whose gain has a
\* non-zero off-diagonal entry and whose residual is non-zero.
C9_Witness ==
    /\ UpdateReturned
    /\ kcfg = CoupledCfg
    /\ k_i = 2
    /\ kalman_gain[1][2] # R0
    /\ residual_mean # <<R0, R0>>

\* The last call was a predict that returned.
PredictReturned == k_last = "predict" /\ k_err = "none"

RLeq(x, y) == RSub(x, y).n <= 0

\* trace of a 2x2 matrix
Trace(X) == RAdd(X[1][1], X[2][2])

\* X is a symmetric positive semi-definite 2x2 matrix: equal off-diagonal
\* entries, non-negative diagonal and non-negative determinant.
SymPSD(X) ==
    /\ X[1][2] = X[2][1]
    /\ RLeq(R0, X[1][1])
    /\ RLeq(R0, X[2][2])
    /\ RLeq(R0, RSub(RMul(X[1][1], X[2][2]), RMul(X[1][2], X[2][1])))

\* C11: every update that returns, given a symmetric PSD predicted covariance
\* (its residual covariance was then invertible), leaves a covariance whose
\* trace is at most the trace of the predicted covariance; along every run.
C11_TraceNeverIncreases ==
    (k_last = "update" /\ k_err = "none" /\ SymPSD(predicted_Sigma)) =>
        RLeq(Trace(Sigma_current), Trace(predicted_Sigma))

\* C11 witness: the second update of a run with coupled H has returned from a
\* symmetric PSD predicted covariance and strictly reduced the trace.
C11_Witness ==
    /\ k_last = "update"
    /\ k_err = "none"
    /\ kcfg = CoupledCfg
    /\ k_i = 2
    /\ SymPSD(predicted_Sigma)
    /\ RLess(Trace(Sigma_current), Trace(predicted_Sigma))

\* The notebook's configuration after one predict with u = (1, 1) and one
\* update with z = (1.2, 0.9), from the initial belief.
ConcreteScenario ==
    /\ kcfg = DriverCfg
    /\ k_last = "update"
    /\ k_err = "none"
    /\ k_i = 1
    /\ k_u = <<R1, R1>>
    /\ k_z = <<Rat(6, 5), Rat(9, 10)>>

\* x lies strictly between a and b (in either order)
StrictlyBetween(x, a, b) ==
    \/ RLess(a, x) /\ RLess(x, b)
    \/ RLess(b, x) /\ RLess(x, a)

\* Each component of the posterior mean lies strictly between the prediction
\* (1, 1) and the measurement (1.2, 0.9).
MeanBetween ==
    /\ StrictlyBetween(mu_current[1], R1, Rat(6, 5))
    /\ StrictlyBetween(mu_current[2], R1, Rat(9, 10))

\* C12 as stated: in the concrete scenario the posterior mean lies strictly
\* between prediction and measurement and the posterior covariance has a
\* trace less than 0.2.
C12_TraceBelowOneFifth ==
    ConcreteScenario =>
        /\ MeanBetween
        /\ RLess(Trace(Sigma_current), Rat(1, 5))

\* C12 amended: in the concrete scenario the posterior mean lies strictly
\* between prediction and measurement and the posterior covariance has a
\* trace less than the trace 0.8 of the predicted covariance (the posterior
\* trace is 288/575, about 0.501).
C12_TraceBelowPredicted ==
    ConcreteScenario =>
        /\ MeanBetween
        /\ predicted_mu = <<R1, R1>>
        /\ Trace(predicted_Sigma) = Rat(4, 5)
        /\ Trace(Sigma_current) = Rat(288, 575)
        /\ RLess(Trace(Sigma_current), Trace(predicted_Sigma))

\* C12 witness: the concrete scenario has run.
C12_Witness ==
    /\ ConcreteScenario
    /\ mu_current = <<Rat(123, 115), Rat(24, 25)>>

\* C13: from a symmetric PSD initial covariance with PSD noise covariances,
\* the covariance held by the caller is symmetric and PSD after every call of
\* every sequence of predict and update calls, whatever their order.
C13_CovarianceStaysPSD ==
    (SymPSD(kcfg.Sigma_0) /\ SymPSD(kcfg.Q) /\ SymPSD(kcfg.R)) =>
        SymPSD(Sigma_current)

\* C13 witness: update has been called on the freshly constructed belief and
\* then again with no predict in between, with coupled H, and both calls
\* changed the covariance.
C13_Witness ==
    /\ k_calls = <<"update", "update">>
    /\ k_err = "none"
    /\ kcfg = CoupledCfg
    /\ SymPSD(kcfg.Sigma_0) /\ SymPSD(kcfg.Q) /\ SymPSD(kcfg.R)
    /\ SymPSD(Sigma_current)
    /\ RLess(Trace(Sigma_current), Rat(1, 1))

\* C16: two runs with the same matrices and initial covariance but other
\* initial means, controls and measurements hold identical covariances after
\* every predict and every update that both have completed.
C16_CovarianceIgnoresData ==
    (k_err = "none" /\ run2.err = "none") =>
        /\ predicted_Sigma = run2.predicted_Sigma
        /\ Sigma_current = run2.Sigma

\* C16 witness: both runs have completed two iterations on different data,
\* hold different means and the same covariance.
C16_Witness ==
    /\ k_i = 2
    /\ k_last = "update"
    /\ k_err = "none"
    /\ run2.err = "none"
    /\ kcfg = CoupledCfg
    /\ mu_current # run2.mu
    /\ Sigma_current = run2.Sigma
    /\ Sigma_current # kcfg.Sigma_0

\* Sum of coordinate c of the states in slots 1..K.
RECURSIVE SlotSum(_, _)
SlotSum(c, K) ==
    IF K = 0 THEN 0 ELSE SlotSum(c, K - 1) + heap[particles[K]].state[c]

\* The step that computes the estimate: over K = floor(alpha*M) states, with
\* the sum of the states in slots 1..K, each an object that existed before
\* this timestep's resampling, leaving every particle and every slot as it is.
EstimateStep ==
    /\ IsFloorOfAlphaM(estimated'.n)
    /\ estimated'.sum = <<SlotSum(1, estimated'.n), SlotSum(2, estimated'.n)>>
    /\ \A j \in 1..estimated'.n : particles[j] \in DOMAIN oldHeap
    /\ heap' = heap
    /\ particles' = particles
    /\ num_particles' = num_particles

\* C14: the estimate of a timestep is the unweighted mean (sum and count) of
\* the states in slots 1..K, K = floor(alpha*M), none of them injected in this
\* timestep, and computing it changes no state, weight or slot.
C14_EstimateIsKeptMean == [][pc = "estimate" => EstimateStep]_vars

\* C14 witness: an estimate has been computed over one kept slot of two, and
\* the injected particle in the other slot has another state.
C14_Witness ==
    /\ pc = "predict"
    /\ i = 1
    /\ num_particles = 2
    /\ estimated = [sum |-> heap[particles[1]].state, n |-> 1]
    /\ particles[2] = nextId - 1
    /\ heap[particles[2]].state # heap[particles[1]].state

\* The order of the phases of one timestep.
PhaseSteps ==
    { <<"predict", "measure">>, <<"measure", "update">>,
      <<"update", "resample">>, <<"resample", "estimate">>,
      <<"resample", "error">>, <<"estimate", "predict">>,
      <<"estimate", "done">> }

\* Every slot's weight is the one update computes from the slot's state and
\* the measurement w.
FreshWeights(h, ps, w) ==
    \A j \in 1..Len(ps) :
        h[ps[j]].weight = [num |-> 1, den2 |-> NormSq(VSub(h[ps[j]].state, w))]

\* C15: the phases of a timestep run in the order predict, (measure,) update,
\* resample, estimate; predict precedes the measurement of the timestep, and
\* when resampling starts every slot's weight is the one update wrote in this
\* timestep from this timestep's z_t and the state the predict loop left; no
\* weight of an earlier timestep, neither the 0 of an injected particle nor
\* the initial 1, is left to be read.
C15_PhasesInOrder ==
    [][ /\ <<pc, pc'>> \in PhaseSteps
        /\ pc = "predict" => z_t = None /\ z_t' = None
        /\ pc = "measure" => z_t = None /\ z_t' # None /\ heap' = heap
        /\ pc = "update" =>
              /\ z_t' = z_t
              /\ \A id \in DOMAIN heap : heap'[id].state = heap[id].state
        /\ pc' = "resample" => FreshWeights(heap', particles', z_t')
      ]_vars

\* C15 witness: resampling of the second timestep is about to read the weight
\* of a particle injected by the first resampling, and that weight is no
\* longer 0.
C15_Witness ==
    /\ pc = "resample"
    /\ i = 1
    /\ \E j \in 1..num_particles :
          /\ particles[j] > num_particles
          /\ heap[particles[j]].weight.num = 1
    /\ FreshWeights(heap, particles, z_t)

====
